---- MODULE Spec2Model ----
(***************************************************************************)
(* memvid-cf: POST /encode and POST /query of src/src/worker.tsx, with the *)
(* helpers of utils (cosineSimilarity, generateQRCodeSVG), the D1 table    *)
(* "entries" and the R2 bucket QR_BUCKET.                                  *)
(*                                                                         *)
(* Every request runs in a slot.  A handler is cut at its awaits: each     *)
(* action is the synchronous code between two awaits together with the     *)
(* outcome of the awaited call, so the interleavings of the model are the  *)
(* interleavings the Workers runtime allows.                               *)
(*                                                                         *)
(* Numbers: fingerprints have small integer components and a score is kept *)
(* exactly, as dot / sqrt(n); comparisons are those of the reals, extended *)
(* with NaN and the infinities as IEEE 754 orders them.  Rounding of       *)
(* Math.sqrt and of the division is not modelled.                          *)
(***************************************************************************)
EXTENDS Integers, Sequences, FiniteSets, TLC

(***************************************************************************)
(* Bounds of the model                                                     *)
(***************************************************************************)
\* number of requests that can be in flight at once
NumSlots == 2

Slots == 1..NumSlots

(***************************************************************************)
(* Strings.  A string is a run of n copies of one character, which is      *)
(* enough to tell the lengths and the character classes of the schemas     *)
(* apart; the empty string is Str("", 0).                                  *)
(***************************************************************************)
Str(c, n) == [ch |-> c, n |-> n]
EmptyStr == Str("", 0)
StrLen(s) == s.n

\* z.string().max(...) of EncodeSchema.id, EncodeSchema.text, QuerySchema.prompt
MaxIdLen == 100
MaxTextLen == 10000
MaxPromptLen == 1000

\* characters of the model inside and outside the class [a-zA-Z0-9_-]
IdClass == {"a", "b", "e", "n", "z", "l", "o", "s", "Z", "0", "_", "-"}

\* /^[a-zA-Z0-9_-]+$/ on a run of one character
IdRegexMatches(s) == StrLen(s) >= 1 /\ s.ch \in IdClass

\* EncodeSchema.safeParse(body).success
EncodeSchemaOffByOne(body) ==
    /\ StrLen(body.text) >= 1 /\ StrLen(body.text) <= MaxTextLen
    /\ StrLen(body.id) >= 1 /\ StrLen(body.id) <= MaxIdLen + 1
    /\ IdRegexMatches(body.id)
EncodeSchema(body) ==
    /\ StrLen(body.text) >= 1 /\ StrLen(body.text) <= MaxTextLen
    /\ StrLen(body.id) >= 1 /\ StrLen(body.id) <= MaxIdLen
    /\ IdRegexMatches(body.id)

\* QuerySchema.safeParse(body).success
QuerySchema(body) ==
    StrLen(body.prompt) >= 1 /\ StrLen(body.prompt) <= MaxPromptLen

\* validateRequest(schema, data).success, for the two schemas
validateRequest(op, body) ==
    IF op = "encode" THEN EncodeSchema(body) ELSE QuerySchema(body)

(***************************************************************************)
(* Request bodies the clients send                                         *)
(***************************************************************************)
ValidIds == {Str("a", 1), Str("b", MaxIdLen)}
InvalidIds == {EmptyStr, Str("a", MaxIdLen + 1), Str("!", 1)}
ValidTexts == {Str("e", 1), Str("n", MaxTextLen), Str("z", 1)}
InvalidTexts == {EmptyStr, Str("e", MaxTextLen + 1)}
ValidPrompts == {Str("e", 1), Str("o", MaxPromptLen), Str("z", 1),
                 Str("s", 1), Str("l", 1)}
InvalidPrompts == {EmptyStr, Str("e", MaxPromptLen + 1)}

ValidEncodeBodies ==
    { [id |-> Str("a", 1), text |-> Str("e", 1)],
      [id |-> Str("a", 1), text |-> Str("n", MaxTextLen)],
      [id |-> Str("b", MaxIdLen), text |-> Str("e", 1)],
      [id |-> Str("b", MaxIdLen), text |-> Str("z", 1)] }
EncodeBodies ==
    ValidEncodeBodies
        \cup [id : InvalidIds, text : {Str("e", 1)}]
        \cup [id : {Str("a", 1)}, text : InvalidTexts]
QueryBodies == [prompt : ValidPrompts \cup InvalidPrompts]

(***************************************************************************)
(* The embedding provider: AI.run('@cf/baai/bge-base-en-v1.5', {text}).    *)
(* The response's data is a list of vectors.  The provider of the model    *)
(* answers by the character the text is made of: unit vectors, (3,4), the  *)
(* zero vector, and vectors of one and of three components.                *)
(***************************************************************************)
AIData(text) ==
    CASE text.ch = "e" -> << <<1, 0>> >>
      [] text.ch = "o" -> << <<0, 1>> >>
      [] text.ch = "n" -> << <<3, 4>> >>
      [] text.ch = "z" -> << <<0, 0>> >>
      [] text.ch = "s" -> << <<1>> >>
      [] text.ch = "l" -> << <<1, 0, 1>> >>
      [] OTHER -> << >>

\* embeddingResp.data[0] || embeddingResp.data
FirstOrData(data) == IF Len(data) > 0 THEN data[1] ELSE data

\* components a fingerprint of the model can hold
Component == 0..4

\* JSON.stringify(embedding): the decimal numerals of the components
JSONstringify(vec) == [i \in 1..Len(vec) |-> ToString(vec[i])]

\* JSON.parse(row.embedding)
JSONparse(json) ==
    [i \in 1..Len(json) |-> CHOOSE x \in Component : ToString(x) = json[i]]

(***************************************************************************)
(* cosineSimilarity and the comparisons of its result                      *)
(***************************************************************************)
RECURSIVE SumTo(_, _)
\* f[1] + ... + f[k]
SumTo(f, k) == IF k = 0 THEN 0 ELSE SumTo(f, k - 1) + f[k]

NaN == [kind |-> "nan", d |-> 0, n |-> 1]
PosInf == [kind |-> "posinf", d |-> 1, n |-> 1]
NegInf == [kind |-> "neginf", d |-> -1, n |-> 1]
\* the real number d / sqrt(n), n > 0
Num(d, n) == [kind |-> "num", d |-> d, n |-> n]

\* dot / (magA * magB).  a.reduce reads b[i] for every index of a: an index
\* past the end of b reads undefined and makes the sum NaN; components of b
\* past the end of a are not read by the dot product, but are by magB.
cosineSimilarity(a, b) ==
    LET dot == SumTo([i \in 1..Len(a) |->
                        IF i <= Len(b) THEN a[i] * b[i] ELSE 0], Len(a))
        sqA == SumTo([i \in 1..Len(a) |-> a[i] * a[i]], Len(a))
        sqB == SumTo([i \in 1..Len(b) |-> b[i] * b[i]], Len(b))
    IN  IF Len(a) > Len(b) THEN NaN
        ELSE IF sqA * sqB = 0
             THEN (IF dot = 0 THEN NaN ELSE IF dot > 0 THEN PosInf ELSE NegInf)
             ELSE Num(dot, sqA * sqB)

\* x |x|: monotone, so d1/sqrt(n1) > d2/sqrt(n2) iff SgnSq(d1) n2 > SgnSq(d2) n1
SgnSq(d) == IF d >= 0 THEN d * d ELSE -(d * d)

\* the position of a non-NaN value among the extended reals
Rank(x) == CASE x.kind = "neginf" -> 0 [] x.kind = "num" -> 1 [] OTHER -> 2

\* x > y of JavaScript numbers: false when either is NaN
GreaterOrEqual(x, y) ==
    /\ x.kind # "nan" /\ y.kind # "nan"
    /\ \/ Rank(x) > Rank(y)
       \/ Rank(x) = Rank(y) /\ x.kind # "num"
       \/ x.kind = "num" /\ y.kind = "num"
          /\ SgnSq(x.d) * y.n >= SgnSq(y.d) * x.n
Greater(x, y) ==
    /\ x.kind # "nan" /\ y.kind # "nan"
    /\ \/ Rank(x) > Rank(y)
       \/ x.kind = "num" /\ y.kind = "num"
          /\ SgnSq(x.d) * y.n > SgnSq(y.d) * x.n

\* the literal 0.6 of "bestScore < 0.6", as ThresholdNum / ThresholdDen
ThresholdNum == 6
ThresholdDen == 10

\* x < 0.6 and x <= 0.6 of JavaScript numbers: false when x is NaN
BelowOrAtThreshold(x) ==
    \/ x.kind = "neginf"
    \/ x.kind = "num"
       /\ SgnSq(x.d) * ThresholdDen * ThresholdDen
            <= ThresholdNum * ThresholdNum * x.n
BelowThreshold(x) ==
    \/ x.kind = "neginf"
    \/ x.kind = "num"
       /\ SgnSq(x.d) * ThresholdDen * ThresholdDen
            < ThresholdNum * ThresholdNum * x.n

(***************************************************************************)
(* The stores and the renderer                                             *)
(***************************************************************************)
\* an optional value: absent, or present
None == << >>
Some(x) == << x >>

\* the fallback of "content: text || ..." (https://workers.dev, 19 characters)
DefaultContent == Str("w", 19)

\* generateQRCodeSVG(text): the SVG of the QR code of the content
generateQRCodeSVG(text) ==
    [qr |-> IF StrLen(text) = 0 THEN DefaultContent ELSE text]

\* `${id}.svg`
SvgKeyShared(id) == [name |-> EmptyStr, ext |-> ".svg"]
SvgKey(id) == [name |-> id, ext |-> ".svg"]
Keys == {SvgKey(id) : id \in ValidIds \cup InvalidIds}

\* QR_BUCKET.put(key, svg)
BucketPutDropped(b, key, svg) == b
BucketPut(b, key, svg) == [b EXCEPT ![key] = Some(svg)]

\* indexes of the rows of table rs whose primary key is id
RowsOf(rs, id) == {k \in 1..Len(rs) : rs[k].id = id}

\* INSERT INTO entries (id, text, embedding) VALUES (?, ?, ?): id is the
\* PRIMARY KEY, created_at defaults to CURRENT_TIMESTAMP.  ok is FALSE when
\* the constraint rejects the statement.
DBInsertOrReplace(rs, id, text, embedding, now) ==
    LET row == [id |-> id, text |-> text, embedding |-> embedding,
                created_at |-> now]
    IN  IF RowsOf(rs, id) # {}
        THEN [ok |-> TRUE,
              rows |-> [k \in 1..Len(rs) |->
                          IF rs[k].id = id THEN row ELSE rs[k]]]
        ELSE [ok |-> TRUE, rows |-> Append(rs, row)]
DBInsert(rs, id, text, embedding, now) ==
    IF RowsOf(rs, id) # {}
    THEN [ok |-> FALSE, rows |-> rs]
    ELSE [ok |-> TRUE,
          rows |-> Append(rs, [id |-> id, text |-> text,
                               embedding |-> embedding, created_at |-> now])]

\* what the catch block of /encode does to the bucket: nothing
EncodeCatchRollback(b, key) == [b EXCEPT ![key] = None]
EncodeCatch(b, key) == b

(***************************************************************************)
(* Responses                                                               *)
(***************************************************************************)
\* c.json({ error: validation.error }, 400)
ValidationError == [status |-> 400, body |-> "validation error"]
\* c.json({ error: 'Internal server error' }, 500)
InternalError == [status |-> 500, body |-> "Internal server error"]
\* c.notFound()
NotFound == [status |-> 404, body |-> "404 Not Found"]
\* c.json({ success: true })
EncodeOk == [status |-> 200, body |-> "success"]
\* c.json({ id, text, qrCode, score, createdAt })
QueryOk(row, svg, score) ==
    [status |-> 200,
     body |-> [id |-> row.id, text |-> row.text, qrCode |-> svg,
               score |-> score, createdAt |-> row.created_at]]

(***************************************************************************)
(* State                                                                   *)
(***************************************************************************)
VARIABLES
    rows,    \* table entries of DB, in rowid order (the order of SELECT *)
    bucket,  \* QR_BUCKET: key -> optional SVG
    clock,   \* CURRENT_TIMESTAMP, in inserts since the table was created
    req      \* the request of each slot: its position and its locals

vars == <<rows, bucket, clock, req>>

\* a slot with no request.  fault, calls and pre record, for the properties,
\* which collaborator threw, the collaborator calls made so far, and, when
\* /encode began with an id that had a row, that row and the id's artifact.
IdleReq ==
    [op |-> "none", pc |-> "idle", body |-> None, svg |-> None,
     vec |-> None, results |-> << >>, bestMatch |-> None,
     bestScore |-> NegInf, qr |-> None, resp |-> None,
     fault |-> "none", calls |-> << >>, pre |-> None]

Init ==
    /\ rows = << >>
    /\ bucket = [k \in Keys |-> None]
    /\ clock = 0
    /\ req = [s \in Slots |-> IdleReq]

(***************************************************************************)
(* POST /encode                                                            *)
(***************************************************************************)
\* the request arrives: c.req.json(), validateRequest, generateQRCodeSVG,
\* and the call of QR_BUCKET.put
EncodeBegin(s, body) ==
    /\ req[s].pc = "idle"
    /\ LET r == [req[s] EXCEPT !.op = "encode", !.body = Some(body),
                     !.pre = IF RowsOf(rows, body.id) = {} THEN None
                             ELSE Some([row |-> rows[CHOOSE k \in RowsOf(rows, body.id) : TRUE],
                                        svg |-> bucket[SvgKey(body.id)]])]
       IN  IF ~validateRequest("encode", body)
           THEN req' = [req EXCEPT ![s] =
                          [r EXCEPT !.pc = "done", !.resp = Some(ValidationError)]]
           ELSE req' = [req EXCEPT ![s] =
                          [r EXCEPT !.pc = "put",
                                    !.svg = Some(generateQRCodeSVG(body.text)),
                                    !.calls = <<"generateQRCodeSVG">>]]
    /\ UNCHANGED <<rows, bucket, clock>>

\* c.req.json() throws on a body that is not JSON
EncodeBadJson(s) ==
    /\ req[s].pc = "idle"
    /\ req' = [req EXCEPT ![s] =
                 [IdleReq EXCEPT !.op = "encode", !.pc = "done",
                                 !.resp = Some(InternalError), !.fault = "json"]]
    /\ UNCHANGED <<rows, bucket, clock>>

\* await QR_BUCKET.put(`${id}.svg`, svg), then the call of AI.run
EncodePut(s) ==
    /\ req[s].op = "encode" /\ req[s].pc = "put"
    /\ bucket' = BucketPut(bucket, SvgKey(req[s].body[1].id), req[s].svg[1])
    /\ req' = [req EXCEPT ![s].pc = "embed",
                          ![s].calls = Append(@, "QR_BUCKET.put")]
    /\ UNCHANGED <<rows, clock>>

\* QR_BUCKET.put throws
EncodePutFail(s) ==
    /\ req[s].op = "encode" /\ req[s].pc = "put"
    /\ bucket' = EncodeCatch(bucket, SvgKey(req[s].body[1].id))
    /\ req' = [req EXCEPT ![s].pc = "done", ![s].resp = Some(InternalError),
                          ![s].fault = "QR_BUCKET",
                          ![s].calls = Append(@, "QR_BUCKET.put")]
    /\ UNCHANGED <<rows, clock>>

\* await AI.run(...), embedding = data[0] || data, then the call of INSERT
EncodeEmbed(s) ==
    /\ req[s].op = "encode" /\ req[s].pc = "embed"
    /\ req' = [req EXCEPT ![s].pc = "insert",
                          ![s].vec = Some(FirstOrData(AIData(req[s].body[1].text))),
                          ![s].calls = Append(@, "AI.run")]
    /\ UNCHANGED <<rows, bucket, clock>>

\* AI.run throws
EncodeEmbedFail(s) ==
    /\ req[s].op = "encode" /\ req[s].pc = "embed"
    /\ bucket' = EncodeCatch(bucket, SvgKey(req[s].body[1].id))
    /\ req' = [req EXCEPT ![s].pc = "done", ![s].resp = Some(InternalError),
                          ![s].fault = "AI",
                          ![s].calls = Append(@, "AI.run")]
    /\ UNCHANGED <<rows, clock>>

\* await DB.prepare('INSERT ...').bind(id, text, JSON.stringify(embedding)).run():
\* the row is stored and the request answers { success: true }, or the
\* PRIMARY KEY rejects the statement and the catch block answers 500
EncodeInsert(s) ==
    /\ req[s].op = "encode" /\ req[s].pc = "insert"
    /\ LET b == req[s].body[1]
           ins == DBInsert(rows, b.id, b.text, JSONstringify(req[s].vec[1]), clock)
       IN  /\ rows' = ins.rows
           /\ IF ins.ok
              THEN /\ bucket' = bucket
                   /\ req' = [req EXCEPT ![s].pc = "done",
                                         ![s].resp = Some(EncodeOk),
                                         ![s].calls = Append(@, "DB.insert")]
              ELSE /\ bucket' = EncodeCatch(bucket, SvgKey(b.id))
                   /\ req' = [req EXCEPT ![s].pc = "done",
                                         ![s].resp = Some(InternalError),
                                         ![s].fault = "constraint",
                                         ![s].calls = Append(@, "DB.insert")]
           /\ clock' = IF ins.ok THEN clock + 1 ELSE clock

\* the INSERT throws because D1 is unavailable
EncodeInsertFail(s) ==
    /\ req[s].op = "encode" /\ req[s].pc = "insert"
    /\ bucket' = EncodeCatch(bucket, SvgKey(req[s].body[1].id))
    /\ req' = [req EXCEPT ![s].pc = "done", ![s].resp = Some(InternalError),
                          ![s].fault = "DB",
                          ![s].calls = Append(@, "DB.insert")]
    /\ UNCHANGED <<rows, clock>>

(***************************************************************************)
(* POST /query                                                             *)
(***************************************************************************)
\* the request arrives: c.req.json(), validateRequest, and the call of AI.run
QueryBegin(s, body) ==
    /\ req[s].pc = "idle"
    /\ LET r == [req[s] EXCEPT !.op = "query", !.body = Some(body)]
       IN  IF ~validateRequest("query", body)
           THEN req' = [req EXCEPT ![s] =
                          [r EXCEPT !.pc = "done", !.resp = Some(ValidationError)]]
           ELSE req' = [req EXCEPT ![s] = [r EXCEPT !.pc = "embed"]]
    /\ UNCHANGED <<rows, bucket, clock>>

\* c.req.json() throws on a body that is not JSON
QueryBadJson(s) ==
    /\ req[s].pc = "idle"
    /\ req' = [req EXCEPT ![s] =
                 [IdleReq EXCEPT !.op = "query", !.pc = "done",
                                 !.resp = Some(InternalError), !.fault = "json"]]
    /\ UNCHANGED <<rows, bucket, clock>>

\* await AI.run(...), queryVec = data[0] || data, then the call of SELECT
QueryEmbed(s) ==
    /\ req[s].op = "query" /\ req[s].pc = "embed"
    /\ req' = [req EXCEPT ![s].pc = "select",
                          ![s].vec = Some(FirstOrData(AIData(req[s].body[1].prompt))),
                          ![s].calls = Append(@, "AI.run")]
    /\ UNCHANGED <<rows, bucket, clock>>

\* AI.run throws
QueryEmbedFail(s) ==
    /\ req[s].op = "query" /\ req[s].pc = "embed"
    /\ req' = [req EXCEPT ![s].pc = "done", ![s].resp = Some(InternalError),
                          ![s].fault = "AI",
                          ![s].calls = Append(@, "AI.run")]
    /\ UNCHANGED <<rows, bucket, clock>>

\* "for (const row of results)" over the first k rows, from
\* bestMatch = null and bestScore = -Infinity
RECURSIVE Scan(_, _, _)
Scan(queryVec, results, k) ==
    IF k = 0
    THEN [bestMatch |-> None, bestScore |-> NegInf]
    ELSE LET best == Scan(queryVec, results, k - 1)
             row == results[k]
             storedEmbedding == JSONparse(row.embedding)
             score == cosineSimilarity(queryVec, storedEmbedding)
         IN  IF Greater(score, best.bestScore)
             THEN [bestMatch |-> Some(row), bestScore |-> score]
             ELSE best

\* await DB.prepare('SELECT * FROM entries').all(): no rows answer
\* c.notFound(); otherwise the loop runs over all of results, then
\* "if (!bestMatch || bestScore < 0.6) return c.notFound()", then the call
\* of QR_BUCKET.get
QuerySelect(s) ==
    /\ req[s].op = "query" /\ req[s].pc = "select"
    /\ IF Len(rows) = 0
       THEN req' = [req EXCEPT ![s].pc = "done", ![s].resp = Some(NotFound),
                               ![s].calls = Append(@, "DB.select")]
       ELSE LET best == Scan(req[s].vec[1], rows, Len(rows))
                r == [req[s] EXCEPT !.results = rows,
                                    !.bestMatch = best.bestMatch,
                                    !.bestScore = best.bestScore,
                                    !.calls = Append(@, "DB.select")]
            IN  IF best.bestMatch = None \/ BelowThreshold(best.bestScore)
                THEN req' = [req EXCEPT ![s] =
                               [r EXCEPT !.pc = "done", !.resp = Some(NotFound)]]
                ELSE req' = [req EXCEPT ![s] = [r EXCEPT !.pc = "get"]]
    /\ UNCHANGED <<rows, bucket, clock>>

\* the SELECT throws because D1 is unavailable
QuerySelectFail(s) ==
    /\ req[s].op = "query" /\ req[s].pc = "select"
    /\ req' = [req EXCEPT ![s].pc = "done", ![s].resp = Some(InternalError),
                          ![s].fault = "DB",
                          ![s].calls = Append(@, "DB.select")]
    /\ UNCHANGED <<rows, bucket, clock>>

\* await QR_BUCKET.get(`${bestMatch.id}.svg`): "if (!qr) return c.notFound()",
\* otherwise the match is returned
QueryGet(s) ==
    /\ req[s].op = "query" /\ req[s].pc = "get"
    /\ LET qr == bucket[SvgKey(req[s].bestMatch[1].id)]
       IN  IF qr = None
           THEN req' = [req EXCEPT ![s].pc = "done", ![s].qr = qr,
                                   ![s].resp = Some(NotFound),
                                   ![s].calls = Append(@, "QR_BUCKET.get")]
           ELSE req' = [req EXCEPT ![s].pc = "done", ![s].qr = qr,
                                   ![s].resp = Some(QueryOk(req[s].bestMatch[1],
                                                            qr[1],
                                                            req[s].bestScore)),
                                   ![s].calls = Append(@, "QR_BUCKET.get")]
    /\ UNCHANGED <<rows, bucket, clock>>

\* QR_BUCKET.get throws
QueryGetFail(s) ==
    /\ req[s].op = "query" /\ req[s].pc = "get"
    /\ req' = [req EXCEPT ![s].pc = "done", ![s].resp = Some(InternalError),
                          ![s].fault = "QR_BUCKET",
                          ![s].calls = Append(@, "QR_BUCKET.get")]
    /\ UNCHANGED <<rows, bucket, clock>>

(***************************************************************************)
(* The environment                                                         *)
(***************************************************************************)
\* the response is delivered and the slot takes the next request
Finish(s) ==
    /\ req[s].pc = "done"
    /\ req' = [req EXCEPT ![s] = IdleReq]
    /\ UNCHANGED <<rows, bucket, clock>>

\* an object of the bucket is deleted from outside the worker
BucketDelete(key) ==
    /\ bucket[key] # None
    /\ bucket' = [bucket EXCEPT ![key] = None]
    /\ UNCHANGED <<rows, clock, req>>

Encode(s) ==
    \/ \E body \in EncodeBodies : EncodeBegin(s, body)
    \/ EncodeBadJson(s)
    \/ EncodePut(s)
    \/ EncodePutFail(s)
    \/ EncodeEmbed(s)
    \/ EncodeEmbedFail(s)
    \/ EncodeInsert(s)
    \/ EncodeInsertFail(s)

Query(s) ==
    \/ \E body \in QueryBodies : QueryBegin(s, body)
    \/ QueryBadJson(s)
    \/ QueryEmbed(s)
    \/ QueryEmbedFail(s)
    \/ QuerySelect(s)
    \/ QuerySelectFail(s)
    \/ QueryGet(s)
    \/ QueryGetFail(s)

Next ==
    \/ \E s \in Slots : Encode(s)
    \/ \E s \in Slots : Query(s)
    \/ \E s \in Slots : Finish(s)

\* the worker alone: only /encode and /query touch the stores
Spec == Init /\ [][Next]_vars

NextFault ==
    \/ Next
    \/ \E key \in Keys : BucketDelete(key)

\* the worker, and a bucket whose objects can be deleted from outside
SpecFault == Init /\ [][NextFault]_vars

\* lines 353-366 of /encode run from stores st with no other request in
\* between and every call answering: put, AI.run, INSERT
RunEncode(st, body) ==
    LET svg == generateQRCodeSVG(body.text)
        embedding == FirstOrData(AIData(body.text))
        ins == DBInsert(st.rows, body.id, body.text,
                        JSONstringify(embedding), st.clock)
    IN  [rows |-> ins.rows,
         bucket |-> BucketPut(st.bucket, SvgKey(body.id), svg),
         clock |-> IF ins.ok THEN st.clock + 1 ELSE st.clock,
         ok |-> ins.ok]

\* the second of two registrations arrives with another id than the first
PairBegin(s, body) ==
    /\ Cardinality({t \in Slots : req[t].pc # "idle"}) < 2
    /\ \A t \in Slots : req[t].pc # "idle" => req[t].body[1].id # body.id
    /\ EncodeBegin(s, body)

NextPair ==
    \E s \in Slots :
        \/ \E body \in ValidEncodeBodies : PairBegin(s, body)
        \/ EncodePut(s)
        \/ EncodeEmbed(s)
        \/ EncodeInsert(s)

\* two registrations of distinct ids on the empty stores, every call of
\* which answers, in all interleavings of their steps
SpecPair == Init /\ [][NextPair]_vars

(***************************************************************************)
(* Vocabulary of the properties                                            *)
(***************************************************************************)
Body(s) == req[s].body[1]
Status(s) == req[s].resp[1].status
Done(s) == req[s].pc = "done"
LastCall(s) == req[s].calls[Len(req[s].calls)]

\* the score the comparator gives stored row r against fingerprint q
ScoreOf(q, r) == cosineSimilarity(q, JSONparse(r.embedding))

\* the score x is a number and, as a real, at least 0.6
MeetsThreshold(x) ==
    \/ x.kind = "posinf"
    \/ x.kind = "num" /\ x.d >= 0 /\ 100 * x.d * x.d >= 36 * x.n

\* both scores are numbers and x > y, resp. x = y, as reals
Exceeds(x, y) ==
    /\ x.kind = "num" /\ y.kind = "num"
    /\ SgnSq(x.d) * y.n > SgnSq(y.d) * x.n
SameScore(x, y) ==
    /\ x.kind = "num" /\ y.kind = "num"
    /\ SgnSq(x.d) * y.n = SgnSq(y.d) * x.n

\* a query whose SELECT returned rows and whose loop has run
Scanned(s) == req[s].op = "query" /\ Len(req[s].results) > 0

IsZeroVector(v) == \A i \in 1..Len(v) : v[i] = 0

\* the row of table rows whose id is id, when there is exactly one
TheRow(id) == rows[CHOOSE k \in RowsOf(rows, id) : TRUE]

(***************************************************************************)
(* C1: a POST /query with a valid prompt, to which the embedding provider  *)
(* and both stores answer and with every stored row's artifact present,    *)
(* answers 200 exactly when the collection is non-empty and the best score *)
(* over the stored entries is at least 0.6 (0.6 itself included), and      *)
(* answers 404, never 500, in every other case.                            *)
(***************************************************************************)
C1_MatchIffBestScoreAtLeastThreshold ==
    \A s \in Slots :
        ( /\ req[s].op = "query" /\ Done(s) /\ req[s].body # None
          /\ StrLen(Body(s).prompt) >= 1 /\ StrLen(Body(s).prompt) <= 1000
          /\ req[s].fault = "none"
          /\ \A k \in 1..Len(req[s].results) :
                bucket[SvgKey(req[s].results[k].id)] # None )
        => LET rs == req[s].results
               accepted == \E k \in 1..Len(rs) :
                              MeetsThreshold(ScoreOf(req[s].vec[1], rs[k]))
           IN  Status(s) = IF accepted THEN 200 ELSE 404

\* a query answered 200 whose best score is exactly 0.6
C1_Witness ==
    \E s \in Slots :
        /\ req[s].op = "query" /\ Done(s) /\ req[s].fault = "none"
        /\ req[s].resp # None /\ Status(s) = 200
        /\ req[s].bestScore = Num(3, 25)

(***************************************************************************)
(* C2: the selection of POST /query goes over every row the table held    *)
(* when it was read (results); the entry it selects has the score recorded *)
(* as bestScore, no stored entry has a greater score, and among the        *)
(* entries that share the greatest score it is the first in the order of   *)
(* results.  When nothing is selected no entry has a score that is a       *)
(* number.                                                                 *)
(***************************************************************************)
C2_FirstMaximumSelected ==
    \A s \in Slots :
        Scanned(s) =>
            LET rs == req[s].results
                sc(k) == ScoreOf(req[s].vec[1], rs[k])
            IN  /\ Len(rs) <= Len(rows)
                /\ \A k \in 1..Len(rs) : rs[k] = rows[k]
                /\ IF req[s].bestMatch = None
                   THEN \A k \in 1..Len(rs) : sc(k).kind = "nan"
                   ELSE \E k \in 1..Len(rs) :
                           /\ rs[k] = req[s].bestMatch[1]
                           /\ sc(k) = req[s].bestScore
                           /\ \A j \in 1..Len(rs) : ~Exceeds(sc(j), sc(k))
                           /\ \A j \in 1..(k - 1) : ~SameScore(sc(j), sc(k))

\* two stored entries share the greatest score and the first is selected
C2_Witness ==
    \E s \in Slots :
        /\ Scanned(s) /\ Len(req[s].results) = 2
        /\ SameScore(ScoreOf(req[s].vec[1], req[s].results[1]),
                     ScoreOf(req[s].vec[1], req[s].results[2]))
        /\ req[s].bestMatch = Some(req[s].results[1])

(***************************************************************************)
(* C3: when POST /query accepts a match and the bucket holds no artifact   *)
(* for the matched id, the response differs from the "no match" response   *)
(* (c.notFound()) given for an empty collection or a best score below the  *)
(* threshold.                                                              *)
(***************************************************************************)
C3_ArtifactMissingIsDistinct ==
    \A s \in Slots :
        ( /\ req[s].op = "query" /\ Done(s) /\ req[s].fault = "none"
          /\ req[s].calls # << >> /\ LastCall(s) = "QR_BUCKET.get"
          /\ req[s].qr = None )
        => req[s].resp # Some(NotFound)

(***************************************************************************)
(* C4: a stored entry whose fingerprint has another length than the query  *)
(* fingerprint gets no numeric score from the comparator and is never the  *)
(* selected best match.                                                    *)
(***************************************************************************)
C4_MismatchedLengthNeverScored ==
    \A s \in Slots :
        Scanned(s) =>
            \A k \in 1..Len(req[s].results) :
                Len(JSONparse(req[s].results[k].embedding)) # Len(req[s].vec[1])
                => /\ ScoreOf(req[s].vec[1], req[s].results[k]).kind # "num"
                   /\ req[s].bestMatch # Some(req[s].results[k])

(***************************************************************************)
(* C5: when the query fingerprint or a stored fingerprint (of the same     *)
(* length) has zero magnitude, the score that enters the selection's       *)
(* "score > bestScore" is not NaN, and a query with such a fingerprint     *)
(* does not end as the plain "no match" response.                          *)
(***************************************************************************)
C5_ZeroMagnitudeNeverNaN ==
    \A s \in Slots :
        Scanned(s) =>
            \A k \in 1..Len(req[s].results) :
                LET q == req[s].vec[1]
                    e == JSONparse(req[s].results[k].embedding)
                IN  (Len(q) = Len(e) /\ (IsZeroVector(q) \/ IsZeroVector(e)))
                    => /\ ScoreOf(q, req[s].results[k]).kind # "nan"
                       /\ (IsZeroVector(q) /\ Done(s)
                             => req[s].resp # Some(NotFound))

(***************************************************************************)
(* C6: whatever POST /encode and POST /query requests have run or are      *)
(* running, every row of the table has an artifact in the bucket under     *)
(* '<id>.svg'; so the row a query has selected has its artifact when the   *)
(* query reads the bucket, and a read of the bucket that answers finds it. *)
(***************************************************************************)
C6_EveryRowHasItsArtifact ==
    /\ \A k \in 1..Len(rows) : bucket[SvgKey(rows[k].id)] # None
    /\ \A s \in Slots :
          /\ (req[s].op = "query" /\ req[s].pc = "get")
                => bucket[SvgKey(req[s].bestMatch[1].id)] # None
          /\ ( /\ req[s].op = "query" /\ Done(s) /\ req[s].fault = "none"
               /\ req[s].calls # << >> /\ LastCall(s) = "QR_BUCKET.get" )
                => (req[s].qr # None /\ Status(s) = 200)

\* a query is about to read the artifact of the row it selected while a
\* registration of an id with no row yet is past its artifact write
C6_Witness ==
    \E s, t \in Slots :
        /\ req[s].op = "query" /\ req[s].pc = "get"
        /\ req[t].op = "encode" /\ req[t].pc \in {"embed", "insert"}
        /\ RowsOf(rows, Body(t).id) = {}
        /\ bucket[SvgKey(Body(t).id)] # None

(***************************************************************************)
(* C7: a POST /encode whose id already has a row ends with exactly one row *)
(* of that id and either with row and artifact both showing the new text   *)
(* (overwritten) or with row and artifact both as they were when the       *)
(* request began (rejected).  Stated for the requests to which the bucket, *)
(* the embedding provider and the table all answered.                      *)
(***************************************************************************)
C7_DuplicateOverwritesOrIsRejected ==
    \A s \in Slots :
        ( /\ req[s].op = "encode" /\ Done(s) /\ req[s].pre # None
          /\ req[s].fault \in {"none", "constraint"} )
        => LET id == Body(s).id
               key == SvgKey(id)
           IN  /\ Cardinality(RowsOf(rows, id)) = 1
               /\ \/ /\ TheRow(id).text = Body(s).text
                     /\ bucket[key] = Some(generateQRCodeSVG(Body(s).text))
                  \/ /\ TheRow(id) = req[s].pre[1].row
                     /\ bucket[key] = req[s].pre[1].svg

(***************************************************************************)
(* C8: in every step, the rows of an id that has a row stay exactly as     *)
(* they are (same text, fingerprint and createdAt, none removed, none      *)
(* added), and the table changes only in the step in which a POST /encode  *)
(* completes with { success: true }, by the one row of that request.       *)
(***************************************************************************)
C8_RowsAreImmutable ==
    [][ /\ \A id \in ValidIds \cup InvalidIds :
              RowsOf(rows, id) # {}
              => {rows'[k] : k \in RowsOf(rows', id)}
                   = {rows[k] : k \in RowsOf(rows, id)}
        /\ rows' # rows
              => \E s \in Slots :
                    /\ req[s].op = "encode" /\ req[s].pc = "insert"
                    /\ req'[s].pc = "done" /\ req'[s].resp = Some(EncodeOk)
                    /\ Len(rows') = Len(rows) + 1
                    /\ \A k \in 1..Len(rows) : rows'[k] = rows[k]
                    /\ rows'[Len(rows')].id = req[s].body[1].id
                    /\ rows'[Len(rows')].text = req[s].body[1].text
      ]_vars

\* a registration of a registered id with another text has ended and the
\* row is the one that was there
C8_Witness ==
    \E s \in Slots :
        /\ req[s].op = "encode" /\ Done(s) /\ req[s].pre # None
        /\ req[s].fault = "constraint"
        /\ Body(s).text # req[s].pre[1].row.text
        /\ RowsOf(rows, Body(s).id) # {}
        /\ TheRow(Body(s).id) = req[s].pre[1].row

(***************************************************************************)
(* C9: a request whose body violates its schema (id empty, longer than 100 *)
(* characters or with a character outside [A-Za-z0-9_-]; text empty or     *)
(* longer than 10000; prompt empty or longer than 1000) is answered 400,   *)
(* has called neither the renderer, the embedding provider, the bucket nor *)
(* the table, and the step that answers it leaves both stores as they are. *)
(***************************************************************************)
ViolatesSchema(op, body) ==
    IF op = "encode"
    THEN \/ StrLen(body.id) = 0 \/ StrLen(body.id) > 100
         \/ body.id.ch \notin IdClass
         \/ StrLen(body.text) = 0 \/ StrLen(body.text) > 10000
    ELSE StrLen(body.prompt) = 0 \/ StrLen(body.prompt) > 1000

C9_InvalidBodyIs400WithoutCalls ==
    /\ [](\A s \in Slots :
            (req[s].body # None /\ ViolatesSchema(req[s].op, Body(s)))
            => /\ Done(s) /\ req[s].resp = Some(ValidationError)
               /\ Status(s) = 400
               /\ req[s].calls = << >>)
    /\ [][\A s \in Slots :
            ( /\ req[s].pc = "idle" /\ req'[s].body # None
              /\ ViolatesSchema(req'[s].op, req'[s].body[1]) )
            => (rows' = rows /\ bucket' = bucket)]_vars

\* an id of 101 characters was refused while the table holds a row
C9_Witness ==
    \E s \in Slots :
        /\ req[s].op = "encode" /\ Done(s) /\ req[s].body # None
        /\ StrLen(Body(s).id) = 101
        /\ Status(s) = 400
        /\ Len(rows) > 0

(***************************************************************************)
(* C10: POST /encode calls, in this order, the renderer, the bucket's put, *)
(* the embedding provider and the table's insert.  When the embedding call *)
(* or the insert fails after the artifact was stored, the request answers  *)
(* 500, the failing step adds no row and leaves the bucket as it is, and   *)
(* the artifact of the id is still in the bucket.                          *)
(***************************************************************************)
EncodeOrder == <<"generateQRCodeSVG", "QR_BUCKET.put", "AI.run", "DB.insert">>

FailedAfterPut(r) ==
    r.op = "encode" /\ r.pc = "done" /\ r.fault \in {"AI", "DB", "constraint"}

C10_OrderAndNoRollback ==
    /\ [](\A s \in Slots :
            req[s].op = "encode"
            => /\ Len(req[s].calls) <= Len(EncodeOrder)
               /\ req[s].calls = SubSeq(EncodeOrder, 1, Len(req[s].calls))
               /\ (Done(s) /\ req[s].resp = Some(EncodeOk))
                     => req[s].calls = EncodeOrder
               /\ FailedAfterPut(req[s])
                     => /\ Status(s) = 500
                        /\ bucket[SvgKey(Body(s).id)] # None)
    /\ [][\A s \in Slots :
            (req[s].pc # "done" /\ FailedAfterPut(req'[s]))
            => (rows' = rows /\ bucket' = bucket)]_vars

\* the embedding call failed: no row of the id, and its artifact is stored
C10_Witness ==
    \E s \in Slots :
        /\ req[s].op = "encode" /\ Done(s) /\ req[s].fault = "AI"
        /\ RowsOf(rows, Body(s).id) = {}
        /\ bucket[SvgKey(Body(s).id)] = Some(generateQRCodeSVG(Body(s).text))

(***************************************************************************)
(* C11: two POST /encode requests with different ids, all of whose calls   *)
(* answer, end in every interleaving of their steps with both answering    *)
(* { success: true } and with the table holding the same entries (id,      *)
(* text, fingerprint) and the bucket the same objects as when one request  *)
(* runs after the other, in either order.                                  *)
(***************************************************************************)
Entries(rs) ==
    {[id |-> rs[k].id, text |-> rs[k].text, embedding |-> rs[k].embedding] :
        k \in 1..Len(rs)}

EmptyStores == [rows |-> << >>, bucket |-> [k \in Keys |-> None], clock |-> 0]

C11_DistinctIdsAreIndependent ==
    \A s, t \in Slots :
        ( /\ s # t
          /\ req[s].op = "encode" /\ Done(s)
          /\ req[t].op = "encode" /\ Done(t)
          /\ Body(s).id # Body(t).id )
        => LET st == RunEncode(RunEncode(EmptyStores, Body(s)), Body(t))
               ts == RunEncode(RunEncode(EmptyStores, Body(t)), Body(s))
           IN  /\ req[s].resp = Some(EncodeOk) /\ req[t].resp = Some(EncodeOk)
               /\ st.ok /\ ts.ok
               /\ Entries(rows) = Entries(st.rows)
               /\ Entries(rows) = Entries(ts.rows)
               /\ Len(rows) = 2
               /\ bucket = st.bucket /\ bucket = ts.bucket

\* both registrations have answered, with different texts
C11_Witness ==
    \E s, t \in Slots :
        /\ s # t
        /\ req[s].op = "encode" /\ Done(s) /\ req[s].resp = Some(EncodeOk)
        /\ req[t].op = "encode" /\ Done(t) /\ req[t].resp = Some(EncodeOk)
        /\ Body(s).id # Body(t).id /\ Body(s).text # Body(t).text
        /\ Len(rows) = 2 /\ rows[1].id = Body(t).id /\ s < t

(***************************************************************************)
(* C12: whatever POST /encode requests have run or are running, the        *)
(* artifact stored under '<id>.svg' of every row is the rendering of the   *)
(* row's text, and the qrCode of every successful POST /query response     *)
(* encodes the text of that response.                                      *)
(***************************************************************************)
C12_ArtifactRendersRowText ==
    /\ \A k \in 1..Len(rows) :
          bucket[SvgKey(rows[k].id)] = Some(generateQRCodeSVG(rows[k].text))
    /\ \A s \in Slots :
          ( /\ req[s].op = "query" /\ Done(s) /\ req[s].resp # None
            /\ Status(s) = 200 )
          => req[s].resp[1].body.qrCode
               = generateQRCodeSVG(req[s].resp[1].body.text)

====
